---- MODULE Spec2Model ----
(***************************************************************************)
(* A model of app.py, the job application letter generator: the text       *)
(* helpers (read_uploaded, excerpt_bullets, parse_jd_summary,              *)
(* fallback_requirements), the bullet parsing of the LLM responses and the *)
(* "Generate Letter" orchestration over the Streamlit session state.       *)
(*                                                                         *)
(* A text is a sequence of one-character strings.  A few words that the    *)
(* code treats as a unit are one element of the sequence: the label        *)
(* "requirements", the literal "null", the code fence ("FENCE") and the word   *)
(* "json" that may follow it.                                              *)
(***************************************************************************)
EXTENDS Integers, Sequences, FiniteSets, TLC

VARIABLES
    pc,         \* position of the script run: idle, validate, jd, ..., store
    session,    \* st.session_state: final_letter, facts_block, recent_jobs, jd_summary
    before,     \* history: session as it was when "Generate Letter" was pressed
    calls,      \* history: the LLM calls issued by the current run, in order
    halt,       \* why the current run ended: "", ok, input, api, nofacts, crash
    inp,        \* widget values of the current run
    loc,        \* local variables of the generate block
    rendered,   \* outcome of the presentation block of the last script run
    runs,       \* number of "Generate Letter" presses so far (bounded)
    fn,         \* which helper a helper specification applied
    arg,        \* the helper's input
    res         \* the helper's result

vars == <<pc, session, before, calls, halt, inp, loc, rendered, runs, fn, arg, res>>

orchVars == <<pc, session, before, calls, halt, inp, loc, rendered, runs>>

fnVars == <<fn, arg, res>>

----------------------------------------------------------------------------
(* Generic sequence helpers (Python str primitives). *)

Max(S) == CHOOSE x \in S : \A y \in S : y <= x

Min(S) == CHOOSE x \in S : \A y \in S : x <= y

SeqsUpTo(A, n) == UNION {[1..k -> A] : k \in 0..n}

RECURSIVE Repeat(_, _)
Repeat(s, n) == IF n <= 0 THEN <<>> ELSE s \o Repeat(s, n - 1)

\* str.isspace / regex \s, on the characters of the model's alphabets.
IsWs(c) == c \in {" ", "\n", "\t"}

\* str.strip(): leading and trailing whitespace removed.
strip(s) ==
    LET keep == {i \in 1..Len(s) : ~IsWs(s[i])}
    IN  IF keep = {} THEN <<>> ELSE SubSeq(s, Min(keep), Max(keep))

\* str.strip(chars) for a single character c.
stripChar(s, c) ==
    LET keep == {i \in 1..Len(s) : s[i] # c}
    IN  IF keep = {} THEN <<>> ELSE SubSeq(s, Min(keep), Max(keep))

\* str.rfind(c, 0, end) as a 1-based position among the first `hi` characters,
\* 0 when absent (Python's index is this position minus one).
rfind(s, c, hi) ==
    LET hits == {i \in 1..Len(s) : i <= hi /\ s[i] = c}
    IN  IF hits = {} THEN 0 ELSE Max(hits)

\* str.splitlines(): the pieces between line breaks; a final line break opens
\* no further (empty) line.
splitlines(s) ==
    LET nl == {i \in 1..Len(s) : s[i] = "\n"}
        starts == {1} \cup {i + 1 : i \in nl}
        real == {b \in starts : b <= Len(s)}
        endOf(b) == IF \E i \in nl : i >= b
                    THEN Min({i \in nl : i >= b}) - 1 ELSE Len(s)
        ord == [k \in 1..Cardinality(real) |->
                  CHOOSE b \in real : Cardinality({x \in real : x < b}) = k - 1]
    IN  [k \in 1..Cardinality(real) |-> SubSeq(s, ord[k], endOf(ord[k]))]

\* "\n".join(lines)
RECURSIVE joinlines(_)
joinlines(ls) ==
    IF ls = <<>> THEN <<>>
    ELSE IF Len(ls) = 1 THEN ls[1]
    ELSE ls[1] \o <<"\n">> \o joinlines(Tail(ls))

\* [f(x) for x in xs if x], for f = strip: the stripped non-empty items.
RECURSIVE strippedNonEmpty(_)
strippedNonEmpty(ls) ==
    IF ls = <<>> THEN <<>>
    ELSE IF strip(Head(ls)) = <<>> THEN strippedNonEmpty(Tail(ls))
    ELSE <<strip(Head(ls))>> \o strippedNonEmpty(Tail(ls))

\* End of the whitespace run that starts at position i.
wsRunEnd(s, i) ==
    LET stop == {j \in i..Len(s) : ~IsWs(s[j])}
    IN  IF stop = {} THEN Len(s) ELSE Min(stop) - 1

StartsWith(s, p) == Len(s) >= Len(p) /\ SubSeq(s, 1, Len(p)) = p

----------------------------------------------------------------------------
(* excerpt_bullets *)

DefaultLimit == 500

WrapThreshold == 140

WrapWidth == 120

IsGlyph(c) == c = "*"   \* stands for the glyphs U+2022 U+00B7 U+2027 U+25AA U+25CF

IsPunct(c) == c \in {".", "!", "?"}

Ellipsis == <<".", ".", ".">>

\* truncate with the text cut at `limit` wherever that falls.
truncateMidWord(raw, limit) ==
    IF Len(raw) > limit THEN SubSeq(raw, 1, limit) \o Ellipsis ELSE raw

\* Lines 67-73: the first `limit` characters; when the text is longer, cut back
\* to the last space of the snippet (if it is not at index 0) and add "...".
truncate(raw, limit) ==
    LET snippet == SubSeq(raw, 1, IF limit < Len(raw) THEN limit ELSE Len(raw))
        p == rfind(snippet, " ", Len(snippet))
    IN  IF Len(raw) > limit
        THEN IF p - 1 > 0 THEN SubSeq(snippet, 1, p - 1) \o Ellipsis
             ELSE snippet \o Ellipsis
        ELSE snippet

\* Line 74: every bullet glyph becomes a line break.
subGlyphs(s) == [i \in 1..Len(s) |-> IF IsGlyph(s[i]) THEN "\n" ELSE s[i]]

\* Line 75: re.sub(r"\s+-\s+", "\n", s), leftmost non-overlapping matches.
RECURSIVE subDashFrom(_, _)
subDashFrom(s, i) ==
    IF i > Len(s) THEN <<>>
    ELSE IF IsWs(s[i])
    THEN LET j == wsRunEnd(s, i)
         IN  IF j + 2 <= Len(s) /\ s[j + 1] = "-" /\ IsWs(s[j + 2])
             THEN <<"\n">> \o subDashFrom(s, wsRunEnd(s, j + 2) + 1)
             ELSE SubSeq(s, i, j) \o subDashFrom(s, j + 1)
    ELSE LET ws == {j \in i..Len(s) : IsWs(s[j])}
             n == IF ws = {} THEN Len(s) + 1 ELSE Min(ws)
         IN  SubSeq(s, i, n - 1) \o subDashFrom(s, n)

\* subDashes with every dash that has whitespace on both sides replaced, also
\* one whose whitespace before it belongs to the previous separator.
subDashesOverlapping(s) ==
    [i \in 1..Len(s) |->
        IF s[i] = "-" /\ 1 < i /\ i < Len(s) /\ IsWs(s[i - 1]) /\ IsWs(s[i + 1])
        THEN "\n" ELSE s[i]]

subDashes(s) == subDashFrom(s, 1)

\* splitSentences with the sentence mark taken as part of the separator.
RECURSIVE splitDroppingFrom(_, _)
splitDroppingFrom(s, from) ==
    LET seps == {i \in (from + 1)..Len(s) : IsPunct(s[i - 1]) /\ IsWs(s[i])}
    IN  IF seps = {} THEN <<SubSeq(s, from, Len(s))>>
        ELSE <<SubSeq(s, from, Min(seps) - 2)>>
                 \o splitDroppingFrom(s, wsRunEnd(s, Min(seps)) + 1)

splitSentencesDroppingMark(line) == splitDroppingFrom(line, 1)

\* Line 81: re.split(r"(?<=[.!?])\s+", line): the pieces between whitespace
\* runs that directly follow a sentence mark.  `from` is where the current
\* piece starts.
RECURSIVE splitFrom(_, _)
splitFrom(s, from) ==
    LET seps == {i \in (from + 1)..Len(s) : IsPunct(s[i - 1]) /\ IsWs(s[i])}
    IN  IF seps = {} THEN <<SubSeq(s, from, Len(s))>>
        ELSE <<SubSeq(s, from, Min(seps) - 1)>>
                 \o splitFrom(s, wsRunEnd(s, Min(seps)) + 1)

splitSentences(line) == splitFrom(line, 1)

\* Lines 79-82: each line split into sentences; a line with no part stays whole.
RECURSIVE expand(_)
expand(lines) ==
    IF lines = <<>> THEN <<>>
    ELSE LET parts == strippedNonEmpty(splitSentences(Head(lines)))
         IN  (IF parts # <<>> THEN parts ELSE <<Head(lines)>>) \o expand(Tail(lines))

\* Lines 86-94: chunks of at most WrapWidth characters, broken at the last
\* space among the first WrapWidth + 1 characters, else at WrapWidth.
RECURSIVE wrap(_)
wrap(line) ==
    IF line = <<>> THEN <<>>
    ELSE IF Len(line) <= WrapWidth THEN <<line>>
    ELSE LET p == rfind(line, " ", WrapWidth + 1)
             cut == IF p - 1 <= 0 THEN WrapWidth ELSE p - 1
         IN  <<strip(SubSeq(line, 1, cut))>>
                 \o wrap(strip(SubSeq(line, cut + 1, Len(line))))

\* Line 96: "\n".join(f"- {line}" for line in expanded)
bulletLines(ls) == joinlines([k \in 1..Len(ls) |-> <<"-", " ">> \o ls[k]])

\* Lines 74-96, everything after the truncation.
format_snippet(snippet0) ==
    LET snippet == subDashes(subGlyphs(snippet0))
        lines0 == strippedNonEmpty(splitlines(snippet))
        lines == IF lines0 = <<>> THEN <<snippet>> ELSE lines0
        expanded0 == expand(lines)
        expanded == IF Len(expanded0) = 1 /\ Len(expanded0[1]) > WrapThreshold
                    THEN wrap(expanded0[1]) ELSE expanded0
    IN  bulletLines(expanded)

excerpt_bullets(text, limit) ==
    IF text = <<>> THEN <<"-", " ", "[empty]">>
    ELSE format_snippet(truncate(strip(text), limit))

----------------------------------------------------------------------------
(* read_pdf_bytes, read_uploaded, pick_input *)

(* The bytes of an upload are a sequence over ByteAlphabet.  "FF" is a byte *)
(* that is not valid UTF-8; "%PDF" ... "%%EOF" frame a document PdfReader   *)
(* can read, whose pages are "PG" (a page with the text " a") and "PG0" (a  *)
(* page extract_text() gives nothing for).  PdfReader raises on anything    *)
(* else: EmptyFileError on an empty stream, PdfReadError / PdfStreamError   *)
(* on bytes that are no document.                                           *)
IsPage(b) == b \in {"PG", "PG0"}

Returned(v) == [raised |-> FALSE, value |-> v]

Raised == [raised |-> TRUE, value |-> <<>>]

\* PdfReader(BytesIO(data)), line 19: whether the constructor raises.
PdfReaderRaises(data) ==
    ~ ( /\ Len(data) >= 2
        /\ data[1] = "%PDF"
        /\ data[Len(data)] = "%%EOF"
        /\ \A i \in 2..(Len(data) - 1) : IsPage(data[i]) )

\* page.extract_text() or "", line 22.
pageText(b) == IF b = "PG" THEN <<" ", "a">> ELSE <<>>

read_pdf_bytes(data) ==
    IF PdfReaderRaises(data) THEN Raised
    ELSE Returned(strip(joinlines(
             [k \in 1..(Len(data) - 2) |-> pageText(data[k + 1])])))

\* bytes.decode("utf-8") raises UnicodeDecodeError on an invalid byte.
utf8Fails(data) == \E i \in 1..Len(data) : data[i] = "FF"

\* bytes.decode("latin-1", errors="ignore"): every byte is a character.
latin1(data) == [i \in 1..Len(data) |-> IF data[i] = "FF" THEN "U+00FF" ELSE data[i]]

\* str.lower() on the parts of a file name.
lower(name) == [i \in 1..Len(name) |-> IF name[i] = ".PDF" THEN ".pdf" ELSE name[i]]

NoFile == [present |-> FALSE, name |-> <<>>, data |-> <<>>]

File(name, data) == [present |-> TRUE, name |-> name, data |-> data]

read_uploaded(uploaded_file) ==
    IF ~uploaded_file.present THEN Returned(<<>>)
    ELSE LET data == uploaded_file.data
             name == lower(uploaded_file.name)
         IN  IF name # <<>> /\ name[Len(name)] = ".pdf"
             THEN read_pdf_bytes(data)
             ELSE IF ~utf8Fails(data) THEN Returned(strip(data))
             ELSE Returned(strip(latin1(data)))

pick_input(text_value, file_value) ==
    IF strip(text_value) # <<>> THEN Returned(strip(text_value))
    ELSE read_uploaded(file_value)

----------------------------------------------------------------------------
(* JSON values and json.loads *)

(* A value is a record: t its Python type, s its canonical text, m the      *)
(* items of a dict (key, value) in insertion order, items those of a list.  *)
NullVal == [t |-> "null", s |-> <<"null">>, m |-> <<>>, items |-> <<>>]

NumVal(digits) == [t |-> "num", s |-> digits, m |-> <<>>, items |-> <<>>]

StrVal(chars) ==
    [t |-> "str", s |-> <<"\"">> \o chars \o <<"\"">>, m |-> <<>>, items |-> <<>>]

RECURSIVE joinComma(_)
joinComma(ss) ==
    IF ss = <<>> THEN <<>>
    ELSE IF Len(ss) = 1 THEN ss[1]
    ELSE ss[1] \o <<",">> \o joinComma(Tail(ss))

ListVal(vals) ==
    [t |-> "list",
     s |-> <<"[">> \o joinComma([k \in 1..Len(vals) |-> vals[k].s]) \o <<"]">>,
     m |-> <<>>, items |-> vals]

DictVal(members) ==
    [t |-> "dict",
     s |-> <<"{">> \o joinComma([k \in 1..Len(members) |->
               <<"\"">> \o members[k].k \o <<"\"", ":">> \o members[k].v.s]) \o <<"}">>,
     m |-> members, items |-> <<>>]

\* d[key] = val on a Python dict: a repeated key keeps its place, takes the value.
put(members, key, val) ==
    IF \E k \in 1..Len(members) : members[k].k = key
    THEN [k \in 1..Len(members) |->
             IF members[k].k = key THEN [k |-> key, v |-> val] ELSE members[k]]
    ELSE Append(members, [k |-> key, v |-> val])

HasKey(val, key) == \E k \in 1..Len(val.m) : val.m[k].k = key

\* dict.get(key): the value, or None.
Get(val, key) ==
    IF HasKey(val, key)
    THEN val.m[CHOOSE k \in 1..Len(val.m) : val.m[k].k = key].v
    ELSE NullVal

ParseFail == [ok |-> FALSE, pos |-> 0, val |-> NullVal]

Parsed(p, v) == [ok |-> TRUE, pos |-> p, val |-> v]

\* First position at or after i that holds no JSON whitespace.
skipWs(s, i) == IF i > Len(s) THEN i ELSE wsRunEnd(s, i) + 1

\* A string literal starting at the quote at i; a control character inside
\* it is an error (strict mode).
parseString(s, i) ==
    LET closes == {j \in (i + 1)..Len(s) : s[j] = "\""}
    IN  IF closes = {} THEN ParseFail
        ELSE LET c == Min(closes)
                 chars == SubSeq(s, i + 1, c - 1)
             IN  IF \E k \in 1..Len(chars) : IsWs(chars[k]) /\ chars[k] # " "
                 THEN ParseFail
                 ELSE Parsed(c + 1, StrVal(chars))

RECURSIVE parseValue(_, _)
RECURSIVE parseMembers(_, _, _)
RECURSIVE parseElements(_, _, _)

parseMembers(s, i, acc) ==
    IF i > Len(s) \/ s[i] # "\"" THEN ParseFail
    ELSE LET key == parseString(s, i)
         IN  IF ~key.ok THEN ParseFail
             ELSE LET j == skipWs(s, key.pos)
                  IN  IF j > Len(s) \/ s[j] # ":" THEN ParseFail
                      ELSE LET v == parseValue(s, skipWs(s, j + 1))
                           IN  IF ~v.ok THEN ParseFail
                               ELSE LET e == skipWs(s, v.pos)
                                        acc2 == put(acc, SubSeq(s, i + 1, key.pos - 2), v.val)
                                    IN  IF e > Len(s) THEN ParseFail
                                        ELSE IF s[e] = "}" THEN Parsed(e + 1, DictVal(acc2))
                                        ELSE IF s[e] = ","
                                        THEN parseMembers(s, skipWs(s, e + 1), acc2)
                                        ELSE ParseFail

parseElements(s, i, acc) ==
    LET v == parseValue(s, i)
    IN  IF ~v.ok THEN ParseFail
        ELSE LET e == skipWs(s, v.pos)
                 acc2 == Append(acc, v.val)
             IN  IF e > Len(s) THEN ParseFail
                 ELSE IF s[e] = "]" THEN Parsed(e + 1, ListVal(acc2))
                 ELSE IF s[e] = "," THEN parseElements(s, skipWs(s, e + 1), acc2)
                 ELSE ParseFail

parseValue(s, i) ==
    IF i > Len(s) THEN ParseFail
    ELSE IF s[i] = "\"" THEN parseString(s, i)
    ELSE IF s[i] = "{"
    THEN LET j == skipWs(s, i + 1)
         IN  IF j <= Len(s) /\ s[j] = "}" THEN Parsed(j + 1, DictVal(<<>>))
             ELSE parseMembers(s, j, <<>>)
    ELSE IF s[i] = "["
    THEN LET j == skipWs(s, i + 1)
         IN  IF j <= Len(s) /\ s[j] = "]" THEN Parsed(j + 1, ListVal(<<>>))
             ELSE parseElements(s, j, <<>>)
    ELSE IF s[i] = "null" THEN Parsed(i + 1, NullVal)
    ELSE IF s[i] = "1"
    THEN LET stop == {j \in i..Len(s) : s[j] # "1"}
             e == IF stop = {} THEN Len(s) + 1 ELSE Min(stop)
         IN  Parsed(e, NumVal(SubSeq(s, i, e - 1)))
    ELSE ParseFail

\* json.loads(s): one value with nothing but whitespace around it, or
\* JSONDecodeError (ok = FALSE).
json_loads(s) ==
    LET v == parseValue(s, skipWs(s, 1))
    IN  IF v.ok /\ skipWs(s, v.pos) = Len(s) + 1 THEN v ELSE ParseFail

----------------------------------------------------------------------------
(* parse_jd_summary, fallback_requirements, normalize_requirements *)

FallbackLimit == 10

\* Line 120: an opening fence, the word json after it and the whitespace
\* that follows are removed from the start of the text.
dropOpeningFence(s) ==
    IF s # <<>> /\ s[1] = "FENCE"
    THEN LET i == IF Len(s) >= 2 /\ s[2] = "json" THEN 3 ELSE 2
         IN  SubSeq(s, skipWs(s, i), Len(s))
    ELSE s

\* Line 121: a closing fence at the end of the text is removed with the
\* whitespace before it.
dropClosingFence(s) ==
    IF s # <<>> /\ s[Len(s)] = "FENCE"
    THEN LET nonWs == {i \in 1..(Len(s) - 1) : ~IsWs(s[i])}
         IN  SubSeq(s, 1, IF nonWs = {} THEN 0 ELSE Max(nonWs))
    ELSE s

\* Line 125: the greedy search for an opening brace, anything, a closing
\* brace: from the first opening brace to the last closing brace of the
\* text; the empty sequence when there is no match.
braceMatch(s) ==
    LET opens == {i \in 1..Len(s) : s[i] = "{"}
        closes == {i \in 1..Len(s) : s[i] = "}"}
    IN  IF opens # {} /\ closes # {} /\ Max(closes) > Min(opens)
        THEN SubSeq(s, Min(opens), Max(closes))
        ELSE <<>>

\* The value json.loads gave, whatever its type; NullVal is Python's None.
parse_jd_summary(text) ==
    IF text = <<>> THEN NullVal
    ELSE LET cleaned == dropClosingFence(dropOpeningFence(strip(text)))
             direct == json_loads(cleaned)
             match == braceMatch(cleaned)
         IN  IF direct.ok THEN direct.val
             ELSE IF match # <<>> /\ json_loads(match).ok THEN json_loads(match).val
             ELSE NullVal

IsLabel(c) == c = "requirements"   \* company_name | role_title | requirements

\* Line 143: a leading label, whitespace, a colon and whitespace are removed.
dropLabel(line) ==
    IF line # <<>> /\ IsLabel(line[1])
    THEN LET j == skipWs(line, 2)
         IN  IF j <= Len(line) /\ line[j] = ":"
             THEN SubSeq(line, skipWs(line, j + 1), Len(line))
             ELSE line
    ELSE line

IsStructural(line) == line \in {<<"{">>, <<"}">>, <<"[">>, <<"]">>}

\* Lines 138-145, one line of the text: the entry it adds, <<>> for none.
fallbackEntry(raw) ==
    LET line == stripChar(strip(raw), ",")
    IN  IF line = <<>> \/ IsStructural(line) THEN <<>>
        ELSE dropLabel(stripChar(line, "\""))

RECURSIVE fallbackLines(_)
fallbackLines(raws) ==
    IF raws = <<>> THEN <<>>
    ELSE (IF fallbackEntry(Head(raws)) = <<>> THEN <<>> ELSE <<fallbackEntry(Head(raws))>>)
             \o fallbackLines(Tail(raws))

fallback_requirements(text, limit) ==
    IF text = <<>> THEN <<>>
    ELSE LET lines == fallbackLines(splitlines(text))
         IN  SubSeq(lines, 1, IF limit < Len(lines) THEN limit ELSE Len(lines))

\* Line 208: {"requirements": fallback_requirements(jd_json_text)}
fallbackSummary(text) ==
    LET reqs == fallback_requirements(text, FallbackLimit)
    IN  DictVal(<<[k |-> <<"requirements">>,
                   v |-> ListVal([i \in 1..Len(reqs) |-> StrVal(reqs[i])])]>>)

\* Lines 206-208.
jdSummaryOf(jd_json_text) ==
    IF parse_jd_summary(jd_json_text).t = "null"
    THEN fallbackSummary(jd_json_text)
    ELSE parse_jd_summary(jd_json_text)

----------------------------------------------------------------------------
(* Bullet parsing of the facts and recent-jobs responses *)

BulletMarker == <<"-", " ">>

\* Lines 218-222 and 240-244: line[2:].strip() for every line whose stripped
\* text starts with "- "; the slice is taken from the line as it came.
RECURSIVE parse_bullets(_)
parse_bullets(lines) ==
    IF lines = <<>> THEN <<>>
    ELSE (IF StartsWith(strip(Head(lines)), BulletMarker)
          THEN <<strip(SubSeq(Head(lines), 3, Len(Head(lines))))>>
          ELSE <<>>) \o parse_bullets(Tail(lines))

bullets(text) == parse_bullets(splitlines(text))

\* Line 228: "\n".join("- " + f for f in facts)
facts_block_of(facts) == bulletLines(facts)

\* Lines 99-113: the list shown as requirements; item.strip() raises on an
\* item that is no string.
stripBulletPrefix(text) ==
    IF text # <<>> /\ (text[1] = "-" \/ IsGlyph(text[1]))
    THEN SubSeq(text, skipWs(text, 2), Len(text))
    ELSE text

strContent(val) == SubSeq(val.s, 2, Len(val.s) - 1)

RECURSIVE cleanItems(_)
cleanItems(items) ==
    IF items = <<>> THEN <<>>
    ELSE (IF strip(Head(items)) = <<>> THEN <<>>
          ELSE <<stripBulletPrefix(strip(Head(items)))>>) \o cleanItems(Tail(items))

normalize_requirements(reqs) ==
    IF reqs.t = "list"
    THEN IF \E k \in 1..Len(reqs.items) : reqs.items[k].t # "str" THEN Raised
         ELSE Returned(cleanItems([k \in 1..Len(reqs.items) |-> strContent(reqs.items[k])]))
    ELSE IF reqs.t = "str" THEN Returned(cleanItems(splitlines(strContent(reqs))))
    ELSE Returned(<<>>)

----------------------------------------------------------------------------
(* The script: session state, the generate block, the presentation block *)

MaxRuns == 2

Stages == <<"jd", "facts", "jobs", "draft", "verify">>

\* Lines 169-176.
SessionInit ==
    [final_letter |-> <<>>, facts_block |-> <<>>, recent_jobs |-> <<>>,
     jd_summary |-> DictVal(<<>>)]

NoInput ==
    [api_key |-> <<>>, cv_file |-> NoFile, jd_text |-> <<>>, jd_file |-> NoFile,
     letter_file |-> NoFile]

LocInit ==
    [cv_input |-> <<>>, jd_input |-> <<>>, letter_input |-> <<>>,
     jd_summary |-> NullVal, facts |-> <<>>, facts_block |-> <<>>,
     recent_jobs |-> <<>>, example_block |-> <<>>, draft_letter |-> <<>>,
     final_letter |-> <<>>]

TxtFile(data) == File(<<"f", ".txt">>, data)

PdfFile(data) == File(<<"f", ".pdf">>, data)

\* What the user may have put into the widgets when pressing the button.
ApiKeys == {<<>>, <<"k">>}

CvFiles == {NoFile, TxtFile(<<"a">>), PdfFile(<<>>)}

JdTexts == {<<>>, <<"j">>}

JdFiles == {NoFile, TxtFile(<<"b">>)}

LetterFiles == {NoFile, TxtFile(<<"e">>)}

\* What the model may answer (message.content), per prompt.
JdContents ==
    { <<"{", "\"", "requirements", "\"", ":", "[", "\"", "x", "\"", "]", "}">>,
      <<"[", "\"", "x", "\"", "]">>,
      <<"requirements", ":", " ", "x">>,
      <<"\"", "x", "\"">> }

FactsContents ==
    { <<"-", " ", "a">>,
      <<"-", " ", "a", "\n", " ", " ", "-", " ", "b">>,
      <<"a">> }

JobsContents == { <<"-", " ", "c">>, <<"n", "o", "n", "e">> }

DraftContents == { <<"d">> }

FinalContents == { <<"l">>, <<" ">> }

\* Line 56: the text chat() returns for a completion.
chat(content) == strip(content)

\* st.stop() (lines 60, 183, 191, 194, 226) or an exception that escapes:
\* the script run ends there.
Halt(why) ==
    /\ pc' = "idle"
    /\ halt' = why

\* The button is pressed: the script reruns with generate = True.
Press ==
    /\ pc = "idle"
    /\ runs < MaxRuns
    /\ \E k \in ApiKeys, cv \in CvFiles, jt \in JdTexts, jf \in JdFiles, lf \in LetterFiles :
          inp' = [api_key |-> k, cv_file |-> cv, jd_text |-> jt, jd_file |-> jf,
                  letter_file |-> lf]
    /\ pc' = "validate"
    /\ before' = session
    /\ calls' = <<>>
    /\ halt' = ""
    /\ loc' = LocInit
    /\ rendered' = "none"
    /\ runs' = runs + 1
    /\ UNCHANGED <<session, fnVars>>

\* Validate without the check of the job description (lines 192-194).
ValidateSkipsJdCheck ==
    /\ pc = "validate"
    /\ LET cv == pick_input(<<>>, inp.cv_file)
           jd == pick_input(inp.jd_text, inp.jd_file)
           letter == pick_input(<<>>, inp.letter_file)
       IN  IF inp.api_key = <<>> THEN Halt("input") /\ loc' = loc
           ELSE IF cv.raised THEN Halt("crash") /\ loc' = loc
           ELSE IF jd.raised
           THEN Halt("crash") /\ loc' = [loc EXCEPT !.cv_input = cv.value]
           ELSE IF letter.raised
           THEN Halt("crash") /\ loc' = [loc EXCEPT !.cv_input = cv.value,
                                                     !.jd_input = jd.value]
           ELSE /\ loc' = [loc EXCEPT !.cv_input = cv.value, !.jd_input = jd.value,
                                      !.letter_input = letter.value]
                /\ IF cv.value = <<>>
                   THEN Halt("input")
                   ELSE pc' = "jd" /\ halt' = halt
    /\ UNCHANGED <<session, before, calls, inp, rendered, runs, fnVars>>

\* Lines 181-194: the key check, the three inputs bound in turn (an
\* exception of a read leaves the later ones unbound), then the empty checks.
Validate ==
    /\ pc = "validate"
    /\ LET cv == pick_input(<<>>, inp.cv_file)
           jd == pick_input(inp.jd_text, inp.jd_file)
           letter == pick_input(<<>>, inp.letter_file)
       IN  IF inp.api_key = <<>> THEN Halt("input") /\ loc' = loc
           ELSE IF cv.raised THEN Halt("crash") /\ loc' = loc
           ELSE IF jd.raised
           THEN Halt("crash") /\ loc' = [loc EXCEPT !.cv_input = cv.value]
           ELSE IF letter.raised
           THEN Halt("crash") /\ loc' = [loc EXCEPT !.cv_input = cv.value,
                                                     !.jd_input = jd.value]
           ELSE /\ loc' = [loc EXCEPT !.cv_input = cv.value, !.jd_input = jd.value,
                                      !.letter_input = letter.value]
                /\ IF cv.value = <<>> \/ jd.value = <<>>
                   THEN Halt("input")
                   ELSE pc' = "jd" /\ halt' = halt
    /\ UNCHANGED <<session, before, calls, inp, rendered, runs, fnVars>>

\* CallJD saving the summary to the session state as soon as it is parsed.
CallJDStoresEarly ==
    /\ pc = "jd"
    /\ calls' = Append(calls, "jd")
    /\ \/ Halt("api") /\ loc' = loc /\ session' = session
       \/ \E c \in JdContents :
             /\ loc' = [loc EXCEPT !.jd_summary = jdSummaryOf(chat(c))]
             /\ session' = [session EXCEPT !.jd_summary = jdSummaryOf(chat(c))]
             /\ pc' = "facts"
             /\ halt' = halt
    /\ UNCHANGED <<before, inp, rendered, runs, fnVars>>

\* Lines 205-208: the JD summary call, then the parse or the fallback.
CallJD ==
    /\ pc = "jd"
    /\ calls' = Append(calls, "jd")
    /\ \/ Halt("api") /\ loc' = loc
       \/ \E c \in JdContents :
             /\ loc' = [loc EXCEPT !.jd_summary = jdSummaryOf(chat(c))]
             /\ pc' = "facts"
             /\ halt' = halt
    /\ UNCHANGED <<session, before, inp, rendered, runs, fnVars>>

\* Lines 217-228: the facts call, the bullets, the empty check.
CallFacts ==
    /\ pc = "facts"
    /\ calls' = Append(calls, "facts")
    /\ \/ Halt("api") /\ loc' = loc
       \/ \E c \in FactsContents :
             LET facts == bullets(chat(c))
             IN  IF facts = <<>>
                 THEN Halt("nofacts") /\ loc' = [loc EXCEPT !.facts = facts]
                 ELSE /\ loc' = [loc EXCEPT !.facts = facts,
                                           !.facts_block = facts_block_of(facts)]
                      /\ pc' = "jobs"
                      /\ halt' = halt
    /\ UNCHANGED <<session, before, inp, rendered, runs, fnVars>>

\* Lines 239-244.
CallJobs ==
    /\ pc = "jobs"
    /\ calls' = Append(calls, "jobs")
    /\ \/ Halt("api") /\ loc' = loc
       \/ \E c \in JobsContents :
             /\ loc' = [loc EXCEPT !.recent_jobs = bullets(chat(c))]
             /\ pc' = "draft"
             /\ halt' = halt
    /\ UNCHANGED <<session, before, inp, rendered, runs, fnVars>>

\* Line 246: the example letter, or the marker that there is none.
example_block_of(letter_input) ==
    IF letter_input # <<>> THEN letter_input ELSE <<"[none]">>

\* Lines 246-265.
CallDraft ==
    /\ pc = "draft"
    /\ calls' = Append(calls, "draft")
    /\ \/ Halt("api") /\ loc' = [loc EXCEPT !.example_block = example_block_of(loc.letter_input)]
       \/ \E c \in DraftContents :
             /\ loc' = [loc EXCEPT !.example_block = example_block_of(loc.letter_input),
                                   !.draft_letter = chat(c)]
             /\ pc' = "verify"
             /\ halt' = halt
    /\ UNCHANGED <<session, before, inp, rendered, runs, fnVars>>

\* CallVerify with the facts block saved before the call is made.
CallVerifyKeepsFacts ==
    /\ pc = "verify"
    /\ calls' = Append(calls, "verify")
    /\ \/ /\ Halt("api")
          /\ loc' = loc
          /\ session' = [session EXCEPT !.facts_block = loc.facts_block]
       \/ \E c \in FinalContents :
             /\ loc' = [loc EXCEPT !.final_letter = chat(c)]
             /\ session' = session
             /\ pc' = "store"
             /\ halt' = halt
    /\ UNCHANGED <<before, inp, rendered, runs, fnVars>>

\* Lines 267-276.
CallVerify ==
    /\ pc = "verify"
    /\ calls' = Append(calls, "verify")
    /\ \/ Halt("api") /\ loc' = loc
       \/ \E c \in FinalContents :
             /\ loc' = [loc EXCEPT !.final_letter = chat(c)]
             /\ pc' = "store"
             /\ halt' = halt
    /\ UNCHANGED <<session, before, inp, rendered, runs, fnVars>>

\* Lines 278-281.
Store ==
    /\ pc = "store"
    /\ session' = [final_letter |-> loc.final_letter, facts_block |-> loc.facts_block,
                   recent_jobs |-> loc.recent_jobs, jd_summary |-> loc.jd_summary]
    /\ pc' = "render"
    /\ halt' = "ok"
    /\ UNCHANGED <<before, calls, inp, loc, rendered, runs, fnVars>>

\* Lines 283-311: what the presentation block does with the session state.
present(ss) ==
    IF ss.final_letter = <<>> THEN "blank"
    ELSE IF ss.jd_summary.t # "dict" THEN "error"
    ELSE IF normalize_requirements(Get(ss.jd_summary, <<"requirements">>)).raised
    THEN "error"
    ELSE "shown"

\* The presentation block at the end of a run that was not stopped.
Render ==
    /\ pc = "render"
    /\ rendered' = present(session)
    /\ pc' = "idle"
    /\ UNCHANGED <<session, before, calls, halt, inp, loc, runs, fnVars>>

\* Any other interaction: the script reruns with generate = False.
Rerun ==
    /\ pc = "idle"
    /\ rendered' = present(session)
    /\ UNCHANGED <<pc, session, before, calls, halt, inp, loc, runs, fnVars>>

OrchInit ==
    /\ pc = "idle"
    /\ session = SessionInit
    /\ before = SessionInit
    /\ calls = <<>>
    /\ halt = ""
    /\ inp = NoInput
    /\ loc = LocInit
    /\ rendered = "none"
    /\ runs = 0

Init ==
    /\ OrchInit
    /\ fn = "none"
    /\ arg = <<>>
    /\ res = <<>>

Next ==
    \/ Press
    \/ Validate
    \/ CallJD
    \/ CallFacts
    \/ CallJobs
    \/ CallDraft
    \/ CallVerify
    \/ Store
    \/ Render
    \/ Rerun

Spec == Init /\ [][Next]_vars

----------------------------------------------------------------------------
(* Helper specifications: one helper applied to every input of a bounded   *)
(* set.  res is <<>> until the helper has run and <<result>> after.        *)

MaxExLen == 4

MaxSepLen == 6

MaxFbLen == 4

MaxProse == 2

MaxBytes == 3

MaxLine == 5

MaxFirstLine == 3

ExAlphabet == {" ", "\n", "\t", "-", ".", "a", "*"}

ShortLimits == {2, 3, DefaultLimit}

Word(n) == [i \in 1..n |-> "a"]

\* Texts long enough for the hard wrap, and one longer than the default limit.
LongTexts ==
    { Word(WrapThreshold + 1),
      Repeat(Word(30) \o <<" ">>, 5),
      Repeat(Word(70) \o <<"\t">> \o Word(9) \o <<" ", " ">>, 2),
      Repeat(Word(20) \o <<" ", "-", " ">> \o Word(20) \o <<".", " ">>, 4),
      Repeat(Word(50) \o <<" ">>, 10) }

LongLimits == {WrapThreshold + 5, DefaultLimit}

\* Texts long enough for several separators in a row, as in "a - - b".
SepAlphabet == {" ", "-", "a", "*"}

\* Two and three dashes in a row between words, the shared whitespace a
\* space, a line break or a tab.
BrokenSepTexts ==
    { <<"a", " ", "-", " ", "-", " ", "a">>,
      <<"a", " ", "-", " ", "-", " ", "-", " ", "a">>,
      <<"a", " ", "-", "\n", "-", " ", "a">>,
      <<"a", "\n", "-", "\n", "-", "\n", "-", "\n", "a">>,
      <<"a", ".", " ", "-", "\t", "-", " ", "a", ".">> }

ExcerptInputs ==
    {[text |-> t, limit |-> l] : t \in SeqsUpTo(ExAlphabet, MaxExLen), l \in ShortLimits}
        \cup {[text |-> t, limit |-> l] : t \in LongTexts, l \in LongLimits}
        \cup {[text |-> t, limit |-> DefaultLimit] :
                 t \in SeqsUpTo(SepAlphabet, MaxSepLen) \cup BrokenSepTexts}

InitExcerpt ==
    /\ OrchInit
    /\ fn = "excerpt_bullets"
    /\ arg \in ExcerptInputs
    /\ res = <<>>

ApplyExcerpt ==
    /\ fn = "excerpt_bullets"
    /\ res = <<>>
    /\ res' = <<excerpt_bullets(arg.text, arg.limit)>>
    /\ UNCHANGED <<orchVars, fn, arg>>

SpecExcerpt == InitExcerpt /\ [][ApplyExcerpt]_vars

FbAlphabet == {"{", "]", "\"", ",", ":", " ", "\n", "x", "requirements"}

FallbackInputs ==
    SeqsUpTo(FbAlphabet, MaxFbLen) \cup {Repeat(<<"x", "\n">>, FallbackLimit + 2)}

InitFallback ==
    /\ OrchInit
    /\ fn = "fallback_requirements"
    /\ arg \in FallbackInputs
    /\ res = <<>>

ApplyFallback ==
    /\ fn = "fallback_requirements"
    /\ res = <<>>
    /\ res' = <<fallback_requirements(arg, FallbackLimit)>>
    /\ UNCHANGED <<orchVars, fn, arg>>

SpecFallback == InitFallback /\ [][ApplyFallback]_vars

ProseAlphabet == {"x", " ", "\n", "{", "}"}

JsonObjects ==
    { <<"{", "}">>,
      <<"{", "\"", "x", "\"", ":", " ", "1", "}">> }

\* A response: one JSON object with prose before it, after it or both.
ParseInputs ==
    {[pre |-> a, obj |-> o, post |-> b] :
        a \in SeqsUpTo(ProseAlphabet, MaxProse), o \in JsonObjects,
        b \in SeqsUpTo(ProseAlphabet, MaxProse)}

responseText(r) == r.pre \o r.obj \o r.post

InitParse ==
    /\ OrchInit
    /\ fn = "parse_jd_summary"
    /\ arg \in ParseInputs
    /\ res = <<>>

ApplyParse ==
    /\ fn = "parse_jd_summary"
    /\ res = <<>>
    /\ res' = <<parse_jd_summary(responseText(arg))>>
    /\ UNCHANGED <<orchVars, fn, arg>>

SpecParse == InitParse /\ [][ApplyParse]_vars

ByteAlphabet == {"a", " ", "FF", "%PDF", "PG", "PG0", "%%EOF"}

FileNames == {<<"cv", ".pdf">>, <<"cv", ".PDF">>, <<"cv", ".txt">>, <<>>}

ReadInputs ==
    {NoFile} \cup {File(n, d) : n \in FileNames, d \in SeqsUpTo(ByteAlphabet, MaxBytes)}

InitRead ==
    /\ OrchInit
    /\ fn = "read_uploaded"
    /\ arg \in ReadInputs
    /\ res = <<>>

ApplyRead ==
    /\ fn = "read_uploaded"
    /\ res = <<>>
    /\ res' = <<read_uploaded(arg)>>
    /\ UNCHANGED <<orchVars, fn, arg>>

SpecRead == InitRead /\ [][ApplyRead]_vars

LineAlphabet == {"-", " ", "a"}

\* A completion of one or two lines; chat() strips it before it is parsed.
BulletInputs ==
    {a \o <<"\n">> \o b :
        a \in SeqsUpTo(LineAlphabet, MaxFirstLine), b \in SeqsUpTo(LineAlphabet, MaxLine)}

InitBullets ==
    /\ OrchInit
    /\ fn = "bullets"
    /\ arg \in BulletInputs
    /\ res = <<>>

ApplyBullets ==
    /\ fn = "bullets"
    /\ res = <<>>
    /\ res' = <<bullets(chat(arg))>>
    /\ UNCHANGED <<orchVars, fn, arg>>

SpecBullets == InitBullets /\ [][ApplyBullets]_vars

----------------------------------------------------------------------------
(* The claims *)

IsPrefix(a, b) == Len(a) <= Len(b) /\ SubSeq(b, 1, Len(a)) = a

NonWs(s) == SelectSeq(s, LAMBDA c : ~IsWs(c))

Applied(f) == fn = f /\ res # <<>>

\* What lines 278-281 write for the locals l.
stored(l) ==
    [final_letter |-> l.final_letter, facts_block |-> l.facts_block,
     recent_jobs |-> l.recent_jobs, jd_summary |-> l.jd_summary]

\* The widgets hold a credential, a CV text and a JD text.
ValidInputs(i) ==
    /\ i.api_key # <<>>
    /\ ~pick_input(<<>>, i.cv_file).raised /\ pick_input(<<>>, i.cv_file).value # <<>>
    /\ ~pick_input(i.jd_text, i.jd_file).raised
    /\ pick_input(i.jd_text, i.jd_file).value # <<>>
    /\ ~pick_input(<<>>, i.letter_file).raised

\* The credential, the CV text or the JD text is missing or empty.
MissingInput(i) ==
    \/ i.api_key = <<>>
    \/ pick_input(<<>>, i.cv_file).value = <<>>
    \/ pick_input(i.jd_text, i.jd_file).value = <<>>

(* C1: a Generate run with a credential, a CV text and a JD text in which  *)
(* no call fails and the fact list is not empty issues the five calls once *)
(* each in the order JD summary, CV facts, recent jobs, draft, verify; the *)
(* session state changes only in the step after the verify call returned,  *)
(* and then takes the four values of that run.                             *)
GenerateCallsInOrderThenStores ==
    /\ [](IsPrefix(calls, Stages))
    /\ [](pc \in {"store", "render"} \/ halt = "ok" => calls = Stages)
    /\ []((pc = "idle" /\ runs > 0 /\ ValidInputs(inp) /\ halt \notin {"api", "nofacts"})
            => (halt = "ok" /\ calls = Stages /\ session = stored(loc)))
    /\ [][session' # session
            => (pc = "store" /\ calls = Stages /\ session' = stored(loc))]_vars

\* C1 witness: a second run went through and replaced a stored letter.
SecondRunStored ==
    /\ pc = "idle" /\ halt = "ok" /\ runs >= 2 /\ calls = Stages
    /\ before.final_letter # <<>>
    /\ session # before
    /\ session.final_letter # <<>>

(* C2: when one of the five calls fails the run ends at that call: the     *)
(* call was issued once, no further call is issued until the button is     *)
(* pressed again, and the session state is what it was before the run.     *)
ApiFailureAbortsRun ==
    /\ [](halt = "api"
            => (pc = "idle" /\ session = before /\ calls # <<>> /\ IsPrefix(calls, Stages)))
    /\ [][(halt' = "api" /\ halt # "api")
            => (calls' = Append(calls, pc) /\ session' = session)]_vars
    /\ [][halt = "api"
            => ((calls' = calls /\ session' = session) \/ pc' = "validate")]_vars

\* C2 witness: the draft call failed in a run that followed a successful one.
DraftFailedAfterSuccess ==
    /\ halt = "api" /\ calls = <<"jd", "facts", "jobs", "draft">>
    /\ session.final_letter # <<>>
    /\ session = before

(* C3: a run with an empty credential, CV text or JD text issues no call   *)
(* and leaves the session state alone; a facts response without a bullet   *)
(* line ends the run after the facts call, with no jobs, draft or verify   *)
(* call and the session state left alone.                                  *)
InputErrorsHaltBeforeCalls ==
    /\ [](halt = "input" => (pc = "idle" /\ calls = <<>> /\ session = before))
    /\ [](halt = "nofacts"
            => (pc = "idle" /\ calls = <<"jd", "facts">> /\ session = before))
    /\ []((pc # "validate" /\ runs > 0 /\ MissingInput(inp))
            => (calls = <<>> /\ session = before /\ halt \in {"input", "crash"}))
    /\ [](Len(calls) > 2 => loc.facts # <<>>)

\* C3 witness: no fact was found in a run that followed a successful one.
NoFactsAfterSuccess ==
    /\ halt = "nofacts" /\ calls = <<"jd", "facts">>
    /\ loc.facts = <<>>
    /\ session.final_letter # <<>>

(* C4: read_uploaded never raises, and gives the empty string for every    *)
(* upload with no bytes, whatever its name.                                *)
ReadUploadedNeverRaises ==
    Applied("read_uploaded")
        => (~res[1].raised /\ (arg.data = <<>> => res[1].value = <<>>))

\* The output of excerpt_bullets without the "- " that opens each line.
RECURSIVE dropMarkers(_)
dropMarkers(lines) ==
    IF lines = <<>> THEN <<>>
    ELSE (IF StartsWith(Head(lines), BulletMarker)
          THEN SubSeq(Head(lines), 3, Len(Head(lines)))
          ELSE Head(lines)) \o dropMarkers(Tail(lines))

excerptContent(out) == NonWs(dropMarkers(splitlines(out)))

\* The stripped text with its bullet glyphs and its dashes between
\* whitespace turned into line breaks.
separatorsAsBreaks(text) == subDashes(subGlyphs(strip(text)))

UnderLimit == arg.text # <<>> /\ Len(arg.text) <= arg.limit

(* C5 as claimed: for a non-empty text no longer than the limit the output *)
(* without its markers has exactly the non-whitespace characters of the    *)
(* text, bullet glyphs and " - " separators included.                      *)
ExcerptKeepsEveryCharacter ==
    (Applied("excerpt_bullets") /\ UnderLimit)
        => excerptContent(res[1]) = NonWs(arg.text)

\* A character that separates: whitespace or a bullet glyph.
IsGap(c) == IsWs(c) \/ IsGlyph(c)

\* A dash of raw with a separating character directly on both sides.
IsDelimitedDash(raw, i) ==
    /\ raw[i] = "-"
    /\ 1 < i /\ i < Len(raw)
    /\ IsGap(raw[i - 1]) /\ IsGap(raw[i + 1])

\* A separator dash: a delimited dash, unless the nearest character before it
\* that does not separate is itself a separator dash.  Of the dashes of
\* "a - - b" the first is a separator and the second is not.
RECURSIVE IsSeparatorDash(_, _)
IsSeparatorDash(raw, i) ==
    /\ IsDelimitedDash(raw, i)
    /\ LET solid == {j \in 1..(i - 1) : ~IsGap(raw[j])}
       IN  solid = {} \/ ~IsSeparatorDash(raw, Max(solid))

\* The characters of the stripped text that are neither whitespace, nor a
\* bullet glyph, nor a separator dash, in their order.
withoutSeparators(text) ==
    LET raw == strip(text)
    IN  NonWs([i \in 1..Len(raw) |->
                  IF IsGap(raw[i]) \/ IsSeparatorDash(raw, i) THEN " " ELSE raw[i]])

(* C5 amended: for a non-empty text no longer than the limit the output    *)
(* without its markers and whitespace is the stripped text without its     *)
(* whitespace, its bullet glyphs and its separator dashes; a dash between   *)
(* separating characters that directly follows a separator dash is kept.   *)
ExcerptKeepsAllButSeparators ==
    (Applied("excerpt_bullets") /\ UnderLimit)
        => excerptContent(res[1]) = withoutSeparators(arg.text)

\* C5 witness: a text under the limit with a glyph, a separator dash and,
\* right after it, a dash between whitespace that the output keeps.
GlyphTextFormatted ==
    /\ Applied("excerpt_bullets") /\ UnderLimit
    /\ \E i \in 1..Len(arg.text) : IsGlyph(arg.text[i])
    /\ LET raw == strip(arg.text)
       IN  \E i, j \in 1..Len(raw) :
              /\ i < j
              /\ IsSeparatorDash(raw, i)
              /\ IsDelimitedDash(raw, j) /\ ~IsSeparatorDash(raw, j)
    /\ Len(splitlines(res[1])) >= 2
    /\ \E k \in 1..Len(res[1]) : k > 2 /\ res[1][k] = "-" /\ res[1][k - 1] # "\n"

SpaceBeforeCutoff(raw, limit) == \E i \in 1..limit : i <= Len(raw) /\ raw[i] = " "

(* C6: for a text whose stripped length exceeds the limit and that has a   *)
(* space among its first `limit` characters, what the output keeps before  *)
(* "..." is a prefix of the stripped text that a space follows in it.      *)
TruncationAtWordBoundary ==
    LET raw == strip(arg.text)
        last == IF arg.limit < Len(raw) THEN arg.limit ELSE Len(raw) - 1
    IN  (Applied("excerpt_bullets") /\ Len(raw) > arg.limit
            /\ SpaceBeforeCutoff(raw, arg.limit))
            => \E k \in 1..last :
                  /\ raw[k + 1] = " "
                  /\ res[1] = format_snippet(SubSeq(raw, 1, k) \o Ellipsis)
                  /\ excerptContent(res[1])
                        = NonWs(separatorsAsBreaks(SubSeq(raw, 1, k) \o Ellipsis))

\* C6 witness: the limit falls inside a word that follows a space.
CutInsideWord ==
    /\ Applied("excerpt_bullets")
    /\ Len(strip(arg.text)) > arg.limit
    /\ SpaceBeforeCutoff(strip(arg.text), arg.limit)
    /\ ~IsWs(strip(arg.text)[arg.limit])
    /\ ~IsWs(strip(arg.text)[arg.limit + 1])

(* C7: fallback_requirements returns at most 10 entries and none of them   *)
(* is a bare "{", "}", "[" or "]".                                         *)
FallbackEntriesBoundedAndClean ==
    Applied("fallback_requirements")
        => /\ Len(res[1]) <= FallbackLimit
           /\ \A k \in 1..Len(res[1]) : ~IsStructural(res[1][k])

(* C8: for a response that is one JSON object with prose around it,        *)
(* parse_jd_summary returns the mapping that parsing the object alone      *)
(* gives, whatever the prose holds.                                        *)
EmbeddedObjectRecovered ==
    (Applied("parse_jd_summary") /\ (arg.pre # <<>> \/ arg.post # <<>>))
        => res[1] = json_loads(arg.obj).val

(* C9: the jd_summary of the session state is always a mapping, so the     *)
(* presentation block's key lookups on it never fail.                      *)
StoredSummaryIsMapping ==
    session.jd_summary.t = "dict" /\ rendered # "error"

\* The entries the claim describes: of every line that starts with the
\* marker (after its indentation), the text after the marker, trimmed.
RECURSIVE markedLines(_)
markedLines(lines) ==
    IF lines = <<>> THEN <<>>
    ELSE (IF StartsWith(strip(Head(lines)), BulletMarker)
          THEN <<strip(SubSeq(strip(Head(lines)), 3, Len(strip(Head(lines)))))>>
          ELSE <<>>) \o markedLines(Tail(lines))

(* C10: the fact list (and the recent-jobs list) holds, in order, for every *)
(* line of the response that starts with the dash-space marker, indented   *)
(* or not, that line's text with the marker removed and trimmed; no entry  *)
(* is empty.                                                               *)
BulletsAreMarkedLines ==
    Applied("bullets")
        => /\ res[1] = markedLines(splitlines(chat(arg)))
           /\ \A k \in 1..Len(res[1]) : res[1][k] # <<>>

====
